---------------------------- MODULE Spec2Model ----------------------------
(***************************************************************************)
(* The upload / get_question / retrieve backend of src/app.py.             *)
(*                                                                         *)
(* State: the "files" table and the storage bucket of the hosted store,    *)
(* the upload requests in flight (one per worker thread, each positioned   *)
(* before its next store call) and the response just sent.  Every store    *)
(* call is one atomic step; what a handler computes between two store      *)
(* calls is part of the step of the call that precedes it.  get_question   *)
(* and retrieve issue one store call each, so each is one step.            *)
(*                                                                         *)
(* Strings the code only compares or copies are TLA+ strings.  Filenames   *)
(* are sequences of one-character strings, so that rsplit, lower and       *)
(* secure_filename are computed.  A missing form/JSON field (None) and an  *)
(* empty one are both falsy in the code and are both written "" here.      *)
(***************************************************************************)
EXTENDS Naturals, Sequences, FiniteSets

VARIABLES
    files,      \* the rows of table "files", in insertion order
    storage,    \* the paths of the objects in the storage bucket
    uploads,    \* uploads[t]: the upload request worker t is handling
    resp        \* the response sent by the last step (op = "none": none)

vars == <<files, storage, uploads, resp>>

-----------------------------------------------------------------------------
(* Bounds and input domains *)

\* most rows the table may hold before new uploads stop being admitted
MaxRows == 2

\* worker threads handling upload requests concurrently
Threads == {"t1", "t2"}

SerialCodes == {"SN123", "SN456"}
Answers == {"Paris", "paris"}

\* " r.PDF": sanitized to "r.PDF", extension allowed once lowered
report_PDF == <<" ", "r", ".", "P", "D", "F">>
malware_exe == <<"m", ".", "e", "x", "e">>
no_extension == <<"p", "d", "f">>

\* the text of an exception or error payload coming back from the store
StoreError == "store error"

-----------------------------------------------------------------------------
(* Pure functions *)

SUPABASE_STORAGE_BUCKET_NAME == "uploads"

ALLOWED_EXTENSIONS ==
    { <<"p", "d", "f">>, <<"t", "x", "t">>, <<"p", "n", "g">>, <<"j", "p", "g">>,
      <<"j", "p", "e", "g">>, <<"g", "i", "f">>, <<"d", "o", "c", "x">>,
      <<"d", "o", "c">>, <<"x", "l", "s", "x">>, <<"x", "l", "s">> }

UpperCase ==
    [A |-> "a", B |-> "b", C |-> "c", D |-> "d", E |-> "e", F |-> "f", G |-> "g",
     H |-> "h", I |-> "i", J |-> "j", K |-> "k", L |-> "l", M |-> "m", N |-> "n",
     O |-> "o", P |-> "p", Q |-> "q", R |-> "r", S |-> "s", T |-> "t", U |-> "u",
     V |-> "v", W |-> "w", X |-> "x", Y |-> "y", Z |-> "z"]

\* str.lower()
lower(s) == [i \in 1..Len(s) |-> IF s[i] \in DOMAIN UpperCase THEN UpperCase[s[i]] ELSE s[i]]

\* the index of the last ch in s, 0 when there is none
LastIndexOf(s, ch) ==
    IF \E i \in 1..Len(s) : s[i] = ch
    THEN CHOOSE i \in 1..Len(s) : s[i] = ch /\ \A j \in (i+1)..Len(s) : s[j] # ch
    ELSE 0

\* filename.rsplit('.', 1)[1], for a filename that holds a '.'
rsplit_dot_1(filename) == SubSeq(filename, LastIndexOf(filename, ".") + 1, Len(filename))

allowed_file_any_extension(filename) == \E i \in 1..Len(filename) : filename[i] = "."

allowed_file(filename) ==
    /\ \E i \in 1..Len(filename) : filename[i] = "."
    /\ lower(rsplit_dot_1(filename)) \in ALLOWED_EXTENSIONS

\* hashlib.sha256(answer.encode()).hexdigest()
sha256_hexdigest(answer) ==
    CASE answer = "Paris" -> "5dd272b4f316b776a7b8e3d0894b37e1e42be3d5d3b204b8a5836cc50597a6b1"
      [] answer = "paris" -> "1670f2e42fefa5044d59a65349e47c566009488fc57d7b4376dd5787b59e3c57"

\* werkzeug's secure_filename: path separators become spaces, whitespace runs
\* are split away and the pieces joined with "_", characters outside
\* [A-Za-z0-9_.-] are dropped, leading and trailing "." and "_" are stripped
SafeChars ==
    (DOMAIN UpperCase) \cup {UpperCase[c] : c \in DOMAIN UpperCase}
        \cup {"0", "1", "2", "3", "4", "5", "6", "7", "8", "9", "_", ".", "-"}

RECURSIVE JoinWords(_, _)
JoinWords(s, started) ==
    IF s = <<>> THEN <<>>
    ELSE IF Head(s) \in {" ", "/"}
         THEN IF started /\ \E i \in 1..Len(s) : s[i] \notin {" ", "/"}
              THEN <<"_">> \o JoinWords(Tail(s), FALSE)
              ELSE JoinWords(Tail(s), started)
         ELSE <<Head(s)>> \o JoinWords(Tail(s), TRUE)

RECURSIVE StripLeft(_)
StripLeft(s) ==
    IF s # <<>> /\ Head(s) \in {".", "_"} THEN StripLeft(Tail(s)) ELSE s

RECURSIVE StripRight(_)
StripRight(s) ==
    IF s # <<>> /\ s[Len(s)] \in {".", "_"} THEN StripRight(SubSeq(s, 1, Len(s) - 1)) ELSE s

secure_filename(filename) ==
    StripRight(StripLeft(SelectSeq(JoinWords(filename, FALSE), LAMBDA c : c \in SafeChars)))

\* f"{serial_code}/{original_filename}"
supabase_storage_filename(serial_code, original_filename) == <<serial_code, "/", original_filename>>

\* the public URL the storage service builds for a path of the bucket
get_public_url(path) == <<"storage/v1/object/public", SUPABASE_STORAGE_BUCKET_NAME, path>>


-----------------------------------------------------------------------------
(* The store *)

select_eq_wrong_column(serial_code) ==
    {i \in 1..Len(files) : files[i].security_question = serial_code}

\* table('files').select(...).eq('serial_code', serial_code): the indices of
\* the rows returned; the query states no order, so data[0] is any of them
select_eq_serial_code(serial_code) ==
    {i \in 1..Len(files) : files[i].serial_code = serial_code}

SelectOutcomes == {"ok", "raise"}
UploadOutcomes == {"ok", "status", "raise"}
UrlOutcomes == {"ok", "absent", "raise"}
InsertOutcomes == {"ok", "empty", "raise"}
RemoveOutcomes == {"ok", "fail", "raise"}

\* hashing, secure_filename and the path (lines 63-70) complete or raise
LocalOutcomes == {"ok", "raise"}

\* what the framework answers when a handler lets an exception escape
UnhandledError == "Internal Server Error"

-----------------------------------------------------------------------------
(* Requests and responses *)

\* hasFile: 'file' in request.files; filename: file.filename
\* the question/answer pairs uploaders choose
Credentials == {<<"What city?", "Paris">>, <<"What pet?", "paris">>}

ValidUploads ==
    { [hasFile |-> TRUE, filename |-> report_PDF, serialCode |-> serial_code,
       securityQuestion |-> qa[1], securityAnswer |-> qa[2]] :
      serial_code \in SerialCodes, qa \in Credentials }

SampleUpload ==
    [hasFile |-> TRUE, filename |-> report_PDF, serialCode |-> "SN123",
     securityQuestion |-> "What city?", securityAnswer |-> "Paris"]

InvalidUploads ==
    { [SampleUpload EXCEPT !.hasFile = FALSE, !.filename = <<>>],
      [SampleUpload EXCEPT !.serialCode = ""],
      [SampleUpload EXCEPT !.securityQuestion = ""],
      [SampleUpload EXCEPT !.securityAnswer = ""],
      [SampleUpload EXCEPT !.filename = <<>>],
      [SampleUpload EXCEPT !.filename = malware_exe],
      [SampleUpload EXCEPT !.filename = no_extension],
      [SampleUpload EXCEPT !.filename = malware_exe, !.securityAnswer = ""] }

UploadRequests == ValidUploads \cup InvalidUploads

QuestionRequests == [serialCode : SerialCodes \cup {""}]

RetrieveRequests == [serialCode : SerialCodes \cup {""}, securityAnswer : Answers \cup {""}]

\* an upload request in flight: the request, the handler's locals, the store
\* calls it has issued with their outcomes, and the table's length when its
\* uniqueness check ran
Idle ==
    [pc |-> "idle", request |-> <<>>, answer_hash |-> "", original_filename |-> <<>>,
     path |-> <<>>, file_url |-> <<>>, calls |-> <<>>, checked_at |-> 0]

NoResponse ==
    [op |-> "none", request |-> <<>>, status |-> 0, body |-> <<>>, calls |-> <<>>,
     data |-> <<>>, path |-> <<>>, checked_at |-> 0]

\* request and (status, body) are what the client sent and gets back; calls
\* (the store calls the handler issued, with their outcomes), data (what the
\* lookup returned), path and checked_at (the table's length when the
\* uniqueness check ran) record what the handler did
Response(op, request, status, body, calls, data, path, checked_at) ==
    [op |-> op, request |-> request, status |-> status, body |-> body, calls |-> calls,
     data |-> data, path |-> path, checked_at |-> checked_at]

Init ==
    /\ files = <<>>
    /\ storage = {}
    /\ uploads = [t \in Threads |-> Idle]
    /\ resp = NoResponse

-----------------------------------------------------------------------------
(* POST /upload *)

\* not all([serial_code, question, answer, file.filename])
MissingData(request) ==
    \/ request.serialCode = ""
    \/ request.securityQuestion = ""
    \/ request.securityAnswer = ""
    \/ request.filename = <<>>

\* lines 41-53: the error of the 400 response, "" when the request is valid
upload_validate(request) ==
    IF ~request.hasFile THEN "No file part"
    ELSE IF MissingData(request) THEN "Missing data"
    ELSE IF ~allowed_file(request.filename) THEN "File type not allowed"
    ELSE ""

SerialCodeNeverExists(data) == FALSE

\* if response.data:
SerialCodeExists(data) == data # {}

InFlight == {t \in Threads : uploads[t].pc # "idle"}

Finish(t, status, body, calls) ==
    /\ resp' = Response("upload", uploads[t].request, status, body,
                        calls, <<>>, uploads[t].path, uploads[t].checked_at)
    /\ uploads' = [uploads EXCEPT ![t] = Idle]

Advance(t, pc, calls) ==
    /\ uploads' = [uploads EXCEPT ![t].pc = pc, ![t].calls = calls]
    /\ resp' = NoResponse

\* lines 41-70: validation, the uniqueness check, then hashing and the path;
\* lines 63-70 precede the try of line 72, so an exception raised there
\* escapes the handler
upload_file(t) ==
    /\ uploads[t].pc = "idle"
    /\ \E request \in UploadRequests :
         LET error == upload_validate(request) IN
         IF error # ""
         THEN /\ resp' = Response("upload", request, 400, [error |-> error], <<>>, <<>>, <<>>, 0)
              /\ UNCHANGED <<files, storage, uploads>>
         ELSE \E outcome \in SelectOutcomes :
                LET calls == <<<<"select", outcome>>>>
                    data == select_eq_serial_code(request.serialCode)
                    original_filename == secure_filename(request.filename)
                IN
                /\ UNCHANGED <<files, storage>>
                /\ IF outcome = "raise"
                   THEN /\ resp' = Response("upload", request, 500,
                                   [error |-> "Database error during serial code check",
                                    detail |-> StoreError], calls, <<>>, <<>>, 0)
                        /\ UNCHANGED uploads
                   ELSE IF SerialCodeExists(data)
                   THEN /\ resp' = Response("upload", request, 409,
                                   [error |-> "Serial code already exists. Please choose a different one."],
                                   calls, <<>>, <<>>, Len(files))
                        /\ UNCHANGED uploads
                   ELSE \E local \in LocalOutcomes :
                        IF local = "raise"
                        THEN /\ resp' = Response("upload", request, 500,
                                        [error |-> UnhandledError], calls, <<>>, <<>>, Len(files))
                             /\ UNCHANGED uploads
                        ELSE
                        /\ Len(files) + Cardinality(InFlight) < MaxRows
                        /\ resp' = NoResponse
                        /\ uploads' = [uploads EXCEPT ![t] =
                               [pc |-> "upload",
                                request |-> request,
                                answer_hash |-> sha256_hexdigest(request.securityAnswer),
                                original_filename |-> original_filename,
                                path |-> supabase_storage_filename(request.serialCode, original_filename),
                                file_url |-> <<>>,
                                calls |-> calls,
                                checked_at |-> Len(files)]]

upload_to_storage_retrying(t) ==
    /\ uploads[t].pc = "upload"
    /\ UNCHANGED files
    /\ \E outcome \in UploadOutcomes :
         LET calls == Append(uploads[t].calls, <<"upload", outcome>>) IN
         CASE outcome = "ok" ->
                /\ storage' = storage \cup {uploads[t].path}
                /\ Advance(t, "get_public_url", calls)
           [] outcome = "status" ->
                /\ UNCHANGED storage
                /\ IF Len(uploads[t].calls) = 1
                   THEN Advance(t, "upload", calls)
                   ELSE Finish(t, 500, [error |-> "Failed to upload file to storage",
                                        detail |-> StoreError], calls)
           [] outcome = "raise" ->
                /\ UNCHANGED storage
                /\ Advance(t, "cleanup", calls)

\* lines 72-83: storage.from_(bucket).upload(...)
upload_to_storage(t) ==
    /\ uploads[t].pc = "upload"
    /\ UNCHANGED files
    /\ \E outcome \in UploadOutcomes :
         LET calls == Append(uploads[t].calls, <<"upload", outcome>>) IN
         CASE outcome = "ok" ->
                /\ storage' = storage \cup {uploads[t].path}
                /\ Advance(t, "get_public_url", calls)
           [] outcome = "status" ->
                /\ UNCHANGED storage
                /\ Finish(t, 500, [error |-> "Failed to upload file to storage",
                                   detail |-> StoreError], calls)
           [] outcome = "raise" ->
                /\ UNCHANGED storage
                /\ Advance(t, "cleanup", calls)

upload_get_public_url_with_cleanup(t) ==
    /\ uploads[t].pc = "get_public_url"
    /\ UNCHANGED <<files, storage>>
    /\ \E outcome \in UrlOutcomes :
         LET calls == Append(uploads[t].calls, <<"get_public_url", outcome>>) IN
         CASE outcome = "ok" ->
                /\ uploads' = [uploads EXCEPT ![t].pc = "insert", ![t].calls = calls,
                                              ![t].file_url = get_public_url(uploads[t].path)]
                /\ resp' = NoResponse
           [] outcome = "absent" ->
                Advance(t, "cleanup", calls)
           [] outcome = "raise" ->
                Advance(t, "cleanup", calls)

\* lines 85-90: storage.from_(bucket).get_public_url(path)
upload_get_public_url(t) ==
    /\ uploads[t].pc = "get_public_url"
    /\ UNCHANGED <<files, storage>>
    /\ \E outcome \in UrlOutcomes :
         LET calls == Append(uploads[t].calls, <<"get_public_url", outcome>>) IN
         CASE outcome = "ok" ->
                /\ uploads' = [uploads EXCEPT ![t].pc = "insert", ![t].calls = calls,
                                              ![t].file_url = get_public_url(uploads[t].path)]
                /\ resp' = NoResponse
           [] outcome = "absent" ->
                Finish(t, 500, [error |-> "Could not get public URL for uploaded file."], calls)
           [] outcome = "raise" ->
                Advance(t, "cleanup", calls)

FileRecord(u) ==
    [serial_code |-> u.request.serialCode,
     security_question |-> u.request.securityQuestion,
     hashed_answer |-> u.answer_hash,
     file_path |-> u.file_url,
     original_filename |-> u.original_filename]

upload_insert_uncaught(t) ==
    /\ uploads[t].pc = "insert"
    /\ UNCHANGED storage
    /\ \E outcome \in InsertOutcomes :
         LET calls == Append(uploads[t].calls, <<"insert", outcome>>) IN
         CASE outcome = "ok" ->
                /\ files' = Append(files, FileRecord(uploads[t]))
                /\ Finish(t, 201, [message |-> "File uploaded successfully!",
                                   fileUrl |-> uploads[t].file_url], calls)
           [] outcome = "empty" ->
                /\ UNCHANGED files
                /\ Advance(t, "remove", calls)
           [] outcome = "raise" ->
                /\ UNCHANGED files
                /\ Finish(t, 500, [error |-> UnhandledError], calls)

\* lines 92-102 and 115: table('files').insert(...), and the 201 response
upload_insert(t) ==
    /\ uploads[t].pc = "insert"
    /\ UNCHANGED storage
    /\ \E outcome \in InsertOutcomes :
         LET calls == Append(uploads[t].calls, <<"insert", outcome>>) IN
         CASE outcome = "ok" ->
                /\ files' = Append(files, FileRecord(uploads[t]))
                /\ Finish(t, 201, [message |-> "File uploaded successfully!",
                                   fileUrl |-> uploads[t].file_url], calls)
           [] outcome = "empty" ->
                /\ UNCHANGED files
                /\ Advance(t, "remove", calls)
           [] outcome = "raise" ->
                /\ UNCHANGED files
                /\ Advance(t, "cleanup", calls)

RemovesNothing(path) == {}

\* storage.from_(bucket).remove([supabase_storage_filename]): the paths removed
RemovedPaths(path) == {path}

\* lines 103-105: the remove after an insert that returned no data
upload_remove(t, outcomes) ==
    /\ uploads[t].pc = "remove"
    /\ UNCHANGED files
    /\ \E outcome \in outcomes :
         LET calls == Append(uploads[t].calls, <<"remove", outcome>>) IN
         CASE outcome = "ok" ->
                /\ storage' = storage \ RemovedPaths(uploads[t].path)
                /\ Finish(t, 500, [error |-> "Failed to store file metadata",
                                   detail |-> StoreError], calls)
           [] outcome = "fail" ->
                /\ UNCHANGED storage
                /\ Finish(t, 500, [error |-> "Failed to store file metadata",
                                   detail |-> StoreError], calls)
           [] outcome = "raise" ->
                /\ UNCHANGED storage
                /\ Advance(t, "cleanup", calls)

upload_cleanup_deleting_row(t, outcomes) ==
    /\ uploads[t].pc = "cleanup"
    /\ files' = SelectSeq(files, LAMBDA row : row.serial_code # uploads[t].request.serialCode)
    /\ \E outcome \in outcomes :
         LET calls == Append(uploads[t].calls, <<"remove", outcome>>) IN
         /\ storage' = IF outcome = "ok" THEN storage \ RemovedPaths(uploads[t].path)
                                         ELSE storage
         /\ Finish(t, 500, [error |-> "Failed to upload file or metadata",
                            detail |-> StoreError], calls)

\* lines 107-113: the handler of any exception raised in lines 72-105
upload_cleanup(t, outcomes) ==
    /\ uploads[t].pc = "cleanup"
    /\ UNCHANGED files
    /\ \E outcome \in outcomes :
         LET calls == Append(uploads[t].calls, <<"remove", outcome>>) IN
         /\ storage' = IF outcome = "ok" THEN storage \ RemovedPaths(uploads[t].path)
                                         ELSE storage
         /\ Finish(t, 500, [error |-> "Failed to upload file or metadata",
                            detail |-> StoreError], calls)

-----------------------------------------------------------------------------
(* POST /get_question *)

QuestionBodyOfSerialCode(file_data) == [securityQuestion |-> file_data.serial_code]

\* line 128
QuestionBody(file_data) == [securityQuestion |-> file_data.security_question]

\* lines 119-132
get_security_question ==
    /\ UNCHANGED <<files, storage, uploads>>
    /\ \E request \in QuestionRequests :
         IF request.serialCode = ""
         THEN resp' = Response("get_question", request, 400,
                               [error |-> "Missing serial code"], <<>>, <<>>, <<>>, 0)
         ELSE \E outcome \in SelectOutcomes :
                LET calls == <<<<"select", outcome>>>>
                    data == select_eq_serial_code(request.serialCode)
                IN
                IF outcome = "raise"
                THEN resp' = Response("get_question", request, 500,
                                      [error |-> "Database error", detail |-> StoreError],
                                      calls, <<>>, <<>>, 0)
                ELSE IF data # {}
                THEN \E i \in data :
                       resp' = Response("get_question", request, 200,
                                        QuestionBody(files[i]),
                                        calls, <<files[i]>>, <<>>, 0)
                ELSE resp' = Response("get_question", request, 404,
                                      [error |-> "Serial code not found"], calls, <<>>, <<>>, 0)

-----------------------------------------------------------------------------
(* POST /retrieve *)

ProvidedAnswerUnhashed(answer) == answer

\* line 156
provided_answer_hash(answer) == sha256_hexdigest(answer)

AnswerAlwaysMatches(stored_answer_hash, provided) == TRUE

\* line 158: not (stored_answer_hash != provided_answer_hash)
AnswerMatches(stored_answer_hash, provided) == stored_answer_hash = provided

RetrieveBodyWholeRow(file_data) == file_data

\* lines 161-165
RetrieveBody(file_data) ==
    [message |-> "Verification successful",
     downloadUrl |-> file_data.file_path,
     originalFilename |-> file_data.original_filename]

retrieve_file_info_locking ==
    /\ UNCHANGED <<storage, uploads>>
    /\ \E request \in RetrieveRequests :
         IF request.serialCode = "" \/ request.securityAnswer = ""
         THEN /\ resp' = Response("retrieve", request, 400, [error |-> "Missing data"],
                                  <<>>, <<>>, <<>>, 0)
              /\ UNCHANGED files
         ELSE \E outcome \in SelectOutcomes :
                LET calls == <<<<"select", outcome>>>>
                    data == select_eq_serial_code(request.serialCode)
                IN
                IF outcome = "raise"
                THEN /\ resp' = Response("retrieve", request, 500,
                                         [error |-> "Database error", detail |-> StoreError],
                                         calls, <<>>, <<>>, 0)
                     /\ UNCHANGED files
                ELSE IF data = {}
                THEN /\ resp' = Response("retrieve", request, 404,
                                         [error |-> "Invalid serial code"], calls, <<>>, <<>>, 0)
                     /\ UNCHANGED files
                ELSE \E i \in data :
                       IF AnswerMatches(files[i].hashed_answer,
                                        provided_answer_hash(request.securityAnswer))
                       THEN /\ resp' = Response("retrieve", request, 200, RetrieveBody(files[i]),
                                                calls, <<files[i]>>, <<>>, 0)
                            /\ UNCHANGED files
                       ELSE /\ resp' = Response("retrieve", request, 403,
                                                [error |-> "Incorrect security answer"],
                                                calls, <<files[i]>>, <<>>, 0)
                            /\ files' = [files EXCEPT ![i].hashed_answer = ""]

\* lines 137-167
retrieve_file_info ==
    /\ UNCHANGED <<files, storage, uploads>>
    /\ \E request \in RetrieveRequests :
         IF request.serialCode = "" \/ request.securityAnswer = ""
         THEN resp' = Response("retrieve", request, 400, [error |-> "Missing data"],
                               <<>>, <<>>, <<>>, 0)
         ELSE \E outcome \in SelectOutcomes :
                LET calls == <<<<"select", outcome>>>>
                    data == select_eq_serial_code(request.serialCode)
                IN
                IF outcome = "raise"
                THEN resp' = Response("retrieve", request, 500,
                                      [error |-> "Database error", detail |-> StoreError],
                                      calls, <<>>, <<>>, 0)
                ELSE IF data = {}
                THEN resp' = Response("retrieve", request, 404,
                                      [error |-> "Invalid serial code"], calls, <<>>, <<>>, 0)
                ELSE \E i \in data :
                       IF AnswerMatches(files[i].hashed_answer,
                                        provided_answer_hash(request.securityAnswer))
                       THEN resp' = Response("retrieve", request, 200, RetrieveBody(files[i]),
                                             calls, <<files[i]>>, <<>>, 0)
                       ELSE resp' = Response("retrieve", request, 403,
                                             [error |-> "Incorrect security answer"],
                                             calls, <<files[i]>>, <<>>, 0)

-----------------------------------------------------------------------------
(* Specifications *)

Next ==
    \/ \E t \in Threads : upload_file(t)
    \/ \E t \in Threads : upload_to_storage(t)
    \/ \E t \in Threads : upload_get_public_url(t)
    \/ \E t \in Threads : upload_insert(t)
    \/ \E t \in Threads : upload_remove(t, RemoveOutcomes)
    \/ \E t \in Threads : upload_cleanup(t, RemoveOutcomes)
    \/ get_security_question
    \/ retrieve_file_info

Spec == Init /\ [][Next]_vars

\* the same program against a store whose remove calls always succeed
NextReliableRemove ==
    \/ \E t \in Threads : upload_file(t)
    \/ \E t \in Threads : upload_to_storage(t)
    \/ \E t \in Threads : upload_get_public_url(t)
    \/ \E t \in Threads : upload_insert(t)
    \/ \E t \in Threads : upload_remove(t, {"ok"})
    \/ \E t \in Threads : upload_cleanup(t, {"ok"})
    \/ get_security_question
    \/ retrieve_file_info

SpecReliableRemove == Init /\ [][NextReliableRemove]_vars


-----------------------------------------------------------------------------
(* Properties *)

\* the rows of the table holding serial code c
RowsOf(c) == {i \in 1..Len(files) : files[i].serial_code = c}

\* the response just sent by a handler whose lookup query returned
LookupReturned == resp.calls # <<>> /\ resp.calls[1] = <<"select", "ok">>

RetrieveAnswered ==
    /\ resp.op = "retrieve"
    /\ resp.request.serialCode # ""
    /\ resp.request.securityAnswer # ""
    /\ LookupReturned

QuestionAnswered ==
    /\ resp.op = "get_question"
    /\ resp.request.serialCode # ""
    /\ LookupReturned

IssuedCall(name) == \E i \in 1..Len(resp.calls) : resp.calls[i][1] = name

\* the real digest of each answer, as the rows store it
Digest ==
    [Paris |-> "5dd272b4f316b776a7b8e3d0894b37e1e42be3d5d3b204b8a5836cc50597a6b1",
     paris |-> "1670f2e42fefa5044d59a65349e47c566009488fc57d7b4376dd5787b59e3c57"]

\* C1 as stated: for every record stored by a successful upload with serial
\* code c, answer a and URL u, a retrieve(c, a) whose lookup returns answers
\* 200 with downloadUrl = u and the stored original filename, whatever other
\* uploads and reads came before.
C1_RetrieveReturnsStoredPath_AsStated ==
    RetrieveAnswered =>
        \A i \in RowsOf(resp.request.serialCode) :
            files[i].hashed_answer = Digest[resp.request.securityAnswer] =>
                /\ resp.status = 200
                /\ resp.body.downloadUrl = files[i].file_path
                /\ resp.body.originalFilename = files[i].original_filename

\* C1 amended: the same, for a record that is the only row with its serial
\* code (always so when no two uploads with that code ran concurrently).
C1_RetrieveReturnsStoredPath ==
    RetrieveAnswered =>
        \A i \in RowsOf(resp.request.serialCode) :
            /\ RowsOf(resp.request.serialCode) = {i}
            /\ files[i].hashed_answer = Digest[resp.request.securityAnswer]
            => /\ resp.status = 200
               /\ resp.body.downloadUrl = files[i].file_path
               /\ resp.body.originalFilename = files[i].original_filename
               /\ files[i].file_path =
                    get_public_url(<<files[i].serial_code, "/", files[i].original_filename>>)

\* a retrieve of the first record succeeds after another upload was recorded
C1_Witness ==
    /\ RetrieveAnswered
    /\ Len(files) = 2
    /\ files[1].serial_code # files[2].serial_code
    /\ resp.request.serialCode = files[1].serial_code
    /\ resp.status = 200
    /\ resp.body.downloadUrl = files[1].file_path

\* C2: a retrieve whose answer's hash differs from the hashed_answer of the
\* row consulted answers 403 with nothing but an error in the body; a body
\* with a downloadUrl is sent only with 200, by retrieve, when the hash of the
\* supplied answer equals the hashed_answer of the row consulted.
C2_WrongAnswerReveals_Nothing ==
    /\ (RetrieveAnswered /\ resp.data # <<>>
            /\ resp.data[1].hashed_answer # Digest[resp.request.securityAnswer])
        => /\ resp.status = 403
           /\ DOMAIN resp.body = {"error"}
           /\ resp.body.error = "Incorrect security answer"
    /\ (resp.op # "none" /\ "downloadUrl" \in DOMAIN resp.body)
        => /\ RetrieveAnswered
           /\ resp.status = 200
           /\ resp.data # <<>>
           /\ resp.data[1].serial_code = resp.request.serialCode
           /\ resp.data[1].hashed_answer = Digest[resp.request.securityAnswer]
    /\ (resp.op = "retrieve" /\ resp.status = 200) => "downloadUrl" \in DOMAIN resp.body

\* a wrong answer for a recorded serial code is refused
C2_Witness ==
    /\ RetrieveAnswered
    /\ resp.data # <<>>
    /\ resp.data[1].hashed_answer # Digest[resp.request.securityAnswer]
    /\ resp.status = 403

\* a valid upload request: every field present, extension in the allow-list
ValidRequest(request) ==
    /\ request.hasFile
    /\ request.serialCode # "" /\ request.securityQuestion # "" /\ request.securityAnswer # ""
    /\ \E i \in 1..Len(request.filename) :
         /\ request.filename[i] = "."
         /\ \A j \in (i+1)..Len(request.filename) : request.filename[j] # "."
         /\ lower(SubSeq(request.filename, i + 1, Len(request.filename))) \in ALLOWED_EXTENSIONS

\* the upload response just sent is for a request whose serial code had a row
\* when its uniqueness check ran (rows are only ever appended)
CheckedAgainstExistingRow ==
    /\ resp.op = "upload"
    /\ ValidRequest(resp.request)
    /\ LookupReturned
    /\ \E i \in 1..resp.checked_at : files[i].serial_code = resp.request.serialCode

\* C3: a valid upload whose serial code has a row when the uniqueness check
\* runs answers 409 having issued no store call but that select, and the step
\* that sends a 409 leaves the table and the bucket unchanged.
C3_DuplicateChangesNothing ==
    /\ [](CheckedAgainstExistingRow =>
            /\ resp.status = 409
            /\ resp.calls = <<<<"select", "ok">>>>)
    /\ [][(resp'.op = "upload" /\ resp'.status = 409) =>
            (files' = files /\ storage' = storage /\ uploads' = uploads)]_vars

\* a second upload with a recorded serial code is refused
C3_Witness ==
    /\ CheckedAgainstExistingRow
    /\ resp.status = 409
    /\ Len(files) >= 1

\* C4: an upload with no file part, a missing or empty serial code, question,
\* answer or filename, or a filename whose extension is not in the allow-list,
\* answers 400 having issued no store call; missing data is reported in
\* preference to an unsupported type; the step changes neither store.
C4_InvalidUploadRejectedBeforeStore ==
    /\ []((resp.op = "upload" /\ ~ValidRequest(resp.request)) =>
            /\ resp.status = 400
            /\ resp.calls = <<>>
            /\ resp.body.error =
                 IF ~resp.request.hasFile THEN "No file part"
                 ELSE IF "" \in {resp.request.serialCode, resp.request.securityQuestion,
                                 resp.request.securityAnswer}
                         \/ resp.request.filename = <<>>
                      THEN "Missing data"
                      ELSE "File type not allowed")
    /\ []((resp.op = "upload" /\ resp.status = 400) => ~ValidRequest(resp.request))
    /\ [][(resp'.op = "upload" /\ resp'.status = 400) =>
            (files' = files /\ storage' = storage /\ uploads' = uploads)]_vars

\* a request with a missing answer and a disallowed extension reports the
\* missing data
C4_Witness ==
    /\ resp.op = "upload"
    /\ resp.request.filename = malware_exe
    /\ resp.request.securityAnswer = ""
    /\ resp.status = 400
    /\ resp.body.error = "Missing data"

\* a request with every field and a disallowed extension is rejected
C4_WitnessType ==
    /\ resp.op = "upload"
    /\ resp.request.filename = malware_exe
    /\ resp.request.securityAnswer # ""
    /\ resp.status = 400
    /\ resp.body.error = "File type not allowed"

\* the store calls of an upload in which every step succeeded
FullSuccess ==
    <<<<"select", "ok">>, <<"upload", "ok">>, <<"get_public_url", "ok">>, <<"insert", "ok">>>>

\* C5: an upload answers 201 only if, in that request, the object upload
\* succeeded, a public URL was obtained and the insert succeeded; and when 201
\* is sent, a row with the request's serial code and file_path = fileUrl
\* exists and the object at serial_code/filename exists.
C5_NoPartialSuccess ==
    (resp.op = "upload" /\ resp.status = 201) =>
        /\ resp.calls = FullSuccess
        /\ \E i \in 1..Len(files) :
             /\ files[i].serial_code = resp.request.serialCode
             /\ files[i].file_path = resp.body.fileUrl
        /\ <<resp.request.serialCode, "/", secure_filename(resp.request.filename)>> \in storage

\* C6: when no upload is in progress (and every remove succeeds), a row with
\* serial code c and filename f exists iff the object c/f exists.
C6_RecordIffObject ==
    (\A t \in Threads : uploads[t].pc = "idle") =>
        \A c \in SerialCodes :
            LET f == secure_filename(report_PDF) IN
            (\E i \in 1..Len(files) :
                files[i].serial_code = c /\ files[i].original_filename = f)
            <=> (<<c, "/", f>> \in storage)

\* the position in the calls of the response just sent of the failed insert
FailedInserts ==
    {i \in 1..Len(resp.calls) :
        resp.calls[i][1] = "insert" /\ resp.calls[i][2] \in {"empty", "raise"}}

\* C7: when the insert of an upload fails after the object was uploaded, a
\* remove of that object's path is issued next, before the response; the
\* response is a 500 reporting the metadata or upload failure whether or not
\* the remove succeeded; a remove that succeeded has deleted the object.
C7_InsertFailureCleansUp ==
    (resp.op = "upload" /\ FailedInserts # {}) =>
        \A i \in FailedInserts :
            /\ i = 4
            /\ SubSeq(resp.calls, 1, 3) = SubSeq(FullSuccess, 1, 3)
            /\ Len(resp.calls) > i
            /\ \A j \in (i+1)..Len(resp.calls) : resp.calls[j][1] = "remove"
            /\ \A j \in (i+1)..(Len(resp.calls) - 1) : resp.calls[j][2] = "raise"
            /\ resp.status = 500
            /\ resp.body.error = IF resp.calls[i][2] = "empty" /\ Len(resp.calls) = i + 1
                                 THEN "Failed to store file metadata"
                                 ELSE "Failed to upload file or metadata"
            /\ resp.calls[Len(resp.calls)][2] = "ok" => resp.path \notin storage
            /\ resp.path = <<resp.request.serialCode, "/", secure_filename(resp.request.filename)>>

\* the insert returned no data, the first remove raised, the second failed too
C7_Witness ==
    /\ resp.op = "upload"
    /\ resp.status = 500
    /\ Len(resp.calls) = 6
    /\ resp.calls[4] = <<"insert", "empty">>
    /\ resp.calls[5] = <<"remove", "raise">>
    /\ resp.calls[6] = <<"remove", "raise">>
    /\ resp.path \in storage

\* the insert failed and the remove deleted the object
C7_WitnessRemoved ==
    /\ resp.op = "upload"
    /\ resp.status = 500
    /\ FailedInserts # {}
    /\ resp.calls[Len(resp.calls)] = <<"remove", "ok">>
    /\ resp.path \notin storage

\* C8: a retrieve whose serial code has no row answers 404 (not the 403 of a
\* wrong answer) whatever answer is supplied; a get_question whose serial
\* code has no row answers 404, and one whose serial code has a row answers
\* 200 with the security_question of a row with that serial code.
C8_UnknownSerialCode ==
    /\ (RetrieveAnswered /\ RowsOf(resp.request.serialCode) = {}) =>
            /\ resp.status = 404
            /\ resp.body = [error |-> "Invalid serial code"]
    /\ (RetrieveAnswered /\ resp.status \in {403, 200}) => RowsOf(resp.request.serialCode) # {}
    /\ (QuestionAnswered /\ RowsOf(resp.request.serialCode) = {}) =>
            /\ resp.status = 404
            /\ resp.body = [error |-> "Serial code not found"]
    /\ (QuestionAnswered /\ RowsOf(resp.request.serialCode) # {}) =>
            /\ resp.status = 200
            /\ DOMAIN resp.body = {"securityQuestion"}
            /\ \E i \in RowsOf(resp.request.serialCode) :
                 resp.body.securityQuestion = files[i].security_question

\* a retrieve for a serial code without a row, while another code has one
C8_Witness ==
    /\ RetrieveAnswered
    /\ RowsOf(resp.request.serialCode) = {}
    /\ Len(files) >= 1
    /\ resp.status = 404

\* a get_question for a recorded serial code
C8_WitnessQuestion ==
    /\ QuestionAnswered
    /\ RowsOf(resp.request.serialCode) # {}
    /\ resp.status = 200

\* the fields of a response body that hold a URL or a filename, not a string
StructuredFields == {"downloadUrl", "fileUrl", "originalFilename", "file_path", "original_filename"}

C10_DuplicatesOnlyByRace ==
    /\ \A t \in Threads :
         uploads[t].pc # "idle" =>
            \A i \in RowsOf(uploads[t].request.serialCode) : i > uploads[t].checked_at
    /\ (resp.op = "upload" /\ IssuedCall("insert")
            /\ resp.calls[Len(resp.calls)] = <<"insert", "ok">>) =>
            /\ resp.status = 201
            /\ Len(files) >= 1
            /\ files[Len(files)].serial_code = resp.request.serialCode
            /\ files[Len(files)].file_path = resp.body.fileUrl
            /\ \A i \in RowsOf(resp.request.serialCode) : i > resp.checked_at

\* two rows share a serial code; the second upload, whose check ran on the
\* empty table, has just been answered 201
C10_Witness ==
    /\ Len(files) = 2
    /\ files[1].serial_code = files[2].serial_code
    /\ resp.op = "upload"
    /\ resp.status = 201
    /\ resp.checked_at = 0
    /\ resp.request.serialCode = files[2].serial_code

\* uploads handled one at a time: a request starts only when none is in flight
upload_file_alone(t) == InFlight = {} /\ upload_file(t)

NextSequential ==
    \/ \E t \in Threads : upload_file_alone(t)
    \/ \E t \in Threads : upload_to_storage(t)
    \/ \E t \in Threads : upload_get_public_url(t)
    \/ \E t \in Threads : upload_insert(t)
    \/ \E t \in Threads : upload_remove(t, RemoveOutcomes)
    \/ \E t \in Threads : upload_cleanup(t, RemoveOutcomes)
    \/ get_security_question
    \/ retrieve_file_info

SpecSequential == Init /\ [][NextSequential]_vars

\* C11: when upload requests are handled one at a time, the table holds at
\* most one row per serial_code after any sequence of upload requests.
C11_SequentialUploadsUnique ==
    \A i, j \in 1..Len(files) : files[i].serial_code = files[j].serial_code => i = j

\* the table is full of distinct serial codes and an upload that reuses one
\* of them has just been refused
C11_Witness ==
    /\ Len(files) = MaxRows
    /\ resp.op = "upload"
    /\ resp.status = 409
    /\ \E i \in 1..Len(files) : files[i].serial_code = resp.request.serialCode

\* the upload response just sent is for a request whose public URL was absent
UrlAbsent(r) ==
    /\ r.op = "upload"
    /\ \E i \in 1..Len(r.calls) : r.calls[i] = <<"get_public_url", "absent">>

\* C12: when the object upload succeeds and the public URL is unavailable,
\* the request answers 500 having issued neither an insert nor a remove, and
\* the step that answers leaves the table and the bucket as they are, so the
\* uploaded object stays in the store.
C12_UrlFailureLeavesOrphan ==
    /\ [](UrlAbsent(resp) =>
            /\ resp.status = 500
            /\ resp.body = [error |-> "Could not get public URL for uploaded file."]
            /\ resp.calls = <<<<"select", "ok">>, <<"upload", "ok">>,
                              <<"get_public_url", "absent">>>>)
    /\ [][UrlAbsent(resp') => (files' = files /\ storage' = storage)]_vars

\* the request has answered 500, no upload is in flight, and its object is in
\* the store with no row for its serial code
C12_Witness ==
    /\ UrlAbsent(resp)
    /\ resp.status = 500
    /\ \A t \in Threads : uploads[t].pc = "idle"
    /\ resp.path \in storage
    /\ RowsOf(resp.request.serialCode) = {}

\* the positions, in the calls of the response just sent, of the store calls
\* of steps 5-7 that raised
RaisedCalls ==
    {i \in 1..Len(resp.calls) :
        resp.calls[i][1] \in {"upload", "get_public_url", "insert"} /\ resp.calls[i][2] = "raise"}

\* the upload response just sent is the framework's: hashing, sanitization or
\* path building (steps 3-4) raised
RaisedLocally == resp.op = "upload" /\ resp.body = [error |-> UnhandledError]

\* the object upload returned a non-success status
UploadRefused ==
    /\ resp.op = "upload"
    /\ \E i \in 1..Len(resp.calls) : resp.calls[i] = <<"upload", "status">>

\* C13 as stated: an exception raised during steps 3-7 of an upload (hashing,
\* sanitization and path building, object upload, URL fetch, insert) triggers
\* a remove of the object path and then a 500; a non-success status returned
\* by the object upload yields 500 with no remove and no insert.
C13_ExceptionCleansUp_AsStated ==
    /\ (resp.op = "upload" /\ (RaisedLocally \/ RaisedCalls # {})) =>
            /\ IssuedCall("remove")
            /\ resp.status = 500
    /\ UploadRefused =>
            /\ resp.status = 500
            /\ ~IssuedCall("remove")
            /\ ~IssuedCall("insert")

\* C13 amended: an exception raised by the object upload, the URL fetch or
\* the insert (steps 5-7) is followed by a remove of the object path and then
\* a 500 reporting the failure, the object being gone when the remove
\* succeeded; an exception in steps 3-4 escapes the handler: 500 with no
\* remove; a non-success upload status yields 500 with no remove, no insert.
C13_ExceptionCleansUp ==
    /\ (resp.op = "upload" /\ RaisedCalls # {}) =>
            \A i \in RaisedCalls :
                /\ Len(resp.calls) = i + 1
                /\ resp.calls[i + 1][1] = "remove"
                /\ \A j \in 1..(i - 1) : resp.calls[j][2] = "ok"
                /\ resp.status = 500
                /\ resp.body = [error |-> "Failed to upload file or metadata",
                                detail |-> StoreError]
                /\ resp.calls[i + 1][2] = "ok" => resp.path \notin storage
                /\ resp.path = <<resp.request.serialCode, "/",
                                 secure_filename(resp.request.filename)>>
    /\ RaisedLocally =>
            /\ resp.status = 500
            /\ resp.calls = <<<<"select", "ok">>>>
    /\ UploadRefused =>
            /\ resp.status = 500
            /\ resp.calls = <<<<"select", "ok">>, <<"upload", "status">>>>
            /\ resp.body.error = "Failed to upload file to storage"

\* the insert raised, the remove deleted the object, the request answered 500
C13_Witness ==
    /\ resp.op = "upload"
    /\ resp.calls = <<<<"select", "ok">>, <<"upload", "ok">>, <<"get_public_url", "ok">>,
                      <<"insert", "raise">>, <<"remove", "ok">>>>
    /\ resp.status = 500
    /\ resp.path \notin storage

\* the object upload was refused with a status: 500, nothing removed
C13_WitnessRefused ==
    /\ UploadRefused
    /\ resp.status = 500
    /\ Len(resp.calls) = 2

\* the store calls of an upload, in the order of the handler
UploadSteps == <<"select", "upload", "get_public_url", "insert">>

\* calls is a run of the handler: the steps in order, each at most once and
\* each but the last successful, then at most two removes
SingleRun(calls) ==
    LET steps == {i \in 1..Len(calls) : calls[i][1] # "remove"}
        k == Cardinality(steps)
    IN
    /\ steps = 1..k
    /\ k <= Len(UploadSteps)
    /\ \A i \in steps : calls[i][1] = UploadSteps[i]
    /\ \A i \in 1..(k - 1) : calls[i][2] = "ok"
    /\ Len(calls) - k <= 2
    /\ Len(calls) > k => calls[k][2] # "ok"

\* a step of the upload thread t is in flight on
StepOf(t) ==
    \/ upload_to_storage(t)
    \/ upload_get_public_url(t)
    \/ upload_insert(t)
    \/ upload_remove(t, RemoveOutcomes)
    \/ upload_cleanup(t, RemoveOutcomes)

\* C14: every request ends with one terminal response and nothing is retried:
\* an upload issues the select, the object upload, the URL fetch and the insert
\* at most once each and in that order, the first of them to fail is the last
\* of them issued, and what follows a failure is the cleanup and an error
\* response; a request in flight can always take its next step, and the step
\* that ends it sends its one response; a read issues one select at most.
C14_OneResponseNoRetry ==
    /\ [](resp.op = "upload" =>
            /\ SingleRun(resp.calls)
            /\ resp.status \in {201, 400, 409, 500}
            /\ resp.status = 201 <=> resp.calls = FullSuccess
            /\ resp.status = 400 <=> resp.calls = <<>>)
    /\ [](resp.op \in {"get_question", "retrieve"} =>
            /\ Len(resp.calls) <= 1
            /\ resp.status \in {200, 400, 403, 404, 500})
    /\ [](\A t \in Threads :
            uploads[t].pc # "idle" =>
                /\ SingleRun(uploads[t].calls)
                /\ ENABLED StepOf(t))
    /\ [][\A t \in Threads :
            (uploads[t].pc # "idle" /\ uploads'[t].pc = "idle") =>
                /\ resp'.op = "upload"
                /\ resp'.request = uploads[t].request
                /\ resp'.status \in {201, 500}
                /\ \A u \in Threads \ {t} : uploads'[u] = uploads[u]]_vars

\* the URL fetch raised and the cleanup failed: one error response, after one
\* select, one upload, one URL fetch and one remove
C14_Witness ==
    /\ resp.op = "upload"
    /\ resp.status = 500
    /\ resp.calls = <<<<"select", "ok">>, <<"upload", "ok">>,
                      <<"get_public_url", "raise">>, <<"remove", "fail">>>>

\* the row inserted first for serial code c
FirstRowOf(c) == CHOOSE i \in RowsOf(c) : \A j \in RowsOf(c) : i <= j

\* every row stays where it is, with the fields it was inserted with
RowsKept ==
    /\ Len(files') >= Len(files)
    /\ \A i \in 1..Len(files) : files'[i] = files[i]

\* C15 as stated: a row is never updated or deleted, so once the row for
\* serial code c is inserted, get_question(c) returns that row's question in
\* every later state and every upload with c whose check runs later gets 409.
C15_RecordsNeverChange_AsStated ==
    /\ [][RowsKept]_vars
    /\ [](QuestionAnswered /\ RowsOf(resp.request.serialCode) # {} =>
            /\ resp.status = 200
            /\ resp.body.securityQuestion =
                 files[FirstRowOf(resp.request.serialCode)].security_question)
    /\ [](CheckedAgainstExistingRow => resp.status = 409)

\* C15 amended: a row is never updated or deleted; get_question(c) returns
\* the question of a row with serial code c, the same one in every later
\* state as long as c has one row; every upload with c whose check runs after
\* the insert gets 409.
C15_RecordsNeverChange ==
    /\ [][RowsKept]_vars
    /\ [](QuestionAnswered /\ RowsOf(resp.request.serialCode) # {} =>
            /\ resp.status = 200
            /\ \E i \in RowsOf(resp.request.serialCode) :
                 /\ resp.data = <<files[i]>>
                 /\ resp.body.securityQuestion = files[i].security_question
            /\ Cardinality(RowsOf(resp.request.serialCode)) = 1 =>
                 resp.body.securityQuestion =
                    files[FirstRowOf(resp.request.serialCode)].security_question)
    /\ [](CheckedAgainstExistingRow => resp.status = 409)

\* the first row is still asked about after a row for another code was added
C15_Witness ==
    /\ QuestionAnswered
    /\ resp.status = 200
    /\ Len(files) = 2
    /\ files[1].serial_code # files[2].serial_code
    /\ resp.request.serialCode = files[1].serial_code
    /\ resp.body.securityQuestion = files[1].security_question

\* a retrieve for the serial code just refused, consulting the same row,
\* that is answered 200
RetrieveAfterRefusal ==
    /\ retrieve_file_info
    /\ resp'.request.serialCode = resp.request.serialCode
    /\ resp'.data = resp.data
    /\ resp'.status = 200

\* C16: a step that answers a get_question or a retrieve, whatever the status,
\* leaves the table, the bucket and the uploads in flight unchanged; after a
\* retrieve refused with 403, a retrieve of the same row with the matching
\* answer is still answered 200.
C16_ReadsChangeNothing ==
    /\ [][resp'.op \in {"get_question", "retrieve"} =>
            (files' = files /\ storage' = storage /\ uploads' = uploads)]_vars
    /\ [](resp.op \in {"get_question", "retrieve"} =>
            resp.status \in {200, 400, 403, 404, 500})
    /\ [](resp.op = "retrieve" /\ resp.status = 403 => ENABLED RetrieveAfterRefusal)

\* a wrong guess has been refused and the matching answer is still accepted
C16_Witness ==
    /\ resp.op = "retrieve"
    /\ resp.status = 403
    /\ resp.data # <<>>
    /\ resp.data[1] \in {files[i] : i \in 1..Len(files)}
    /\ ENABLED RetrieveAfterRefusal

\* the object path a row was recorded for (line 70)
ObjectPathOf(row) == supabase_storage_filename(row.serial_code, row.original_filename)

\* C17: the compensating remove of a failing upload never deletes an object a
\* recorded row points to: no step takes the object of a row out of the
\* bucket, so under every interleaving of uploads the object of each row
\* whose upload returned 201 is still in the bucket.
C17_RemoveSparesRecordedObjects ==
    /\ [][\A i \in 1..Len(files) :
            ObjectPathOf(files[i]) \in storage => ObjectPathOf(files[i]) \in storage']_vars
    /\ [](\A i \in 1..Len(files) : ObjectPathOf(files[i]) \in storage)

=============================================================================
